---- MODULE Spec2Model ----
(***************************************************************************)
(* Model of plugins/modules/zabbix_trigger.py: the Ansible module that     *)
(* creates, updates and deletes one Zabbix trigger.                        *)
(*                                                                         *)
(* The state is the set of triggers held by the Zabbix server and the      *)
(* record of the running (or last finished) operation: which entry point   *)
(* was called, with what arguments, which remote API calls it issued and   *)
(* how it ended.  One action models one whole call of an entry point:      *)
(* main() (the module run by Ansible) or one public method of the class    *)
(* Trigger called by importing code.                                       *)
(*                                                                         *)
(* Python control flow is modelled by completion records: a function       *)
(* either returns a value, leaves through module.exit_json /               *)
(* module.fail_json (both raise SystemExit in AnsibleModule) or raises an  *)
(* exception (NameError, KeyError, IndexError, a failed remote call).      *)
(***************************************************************************)
EXTENDS Integers, Sequences, FiniteSets, TLC

VARIABLES
    remote,   \* the server's triggers: triggerid -> wire object or NoTrigger
    pre,      \* the server's triggers when the current operation started
    cur,      \* the current operation: entry point, arguments, calls, outcome
    fault     \* which remote call of an operation the session fails (0: none)

vars == <<remote, pre, cur, fault>>

-----------------------------------------------------------------------------
(* Bounds of the model                                                     *)

\* number of trigger ids the server can hold
MaxTriggers == 2

\* how many times in a row one operation is run with the same arguments
MaxRuns == 2

\* the latest remote call of an operation that the session may fail
MaxFault == 2

-----------------------------------------------------------------------------
(* Values                                                                  *)

\* module.params[...] of an option the playbook does not set (Python None)
None == "<None>"

\* the object the free name `type` denotes inside generate_trigger_config:
\* the function has no parameter or local of that name, the module has no
\* global of that name, so Python finds the builtin class
BuiltinType == "<class 'type'>"

Hosts == {"h1", "h2"}
Names == {"svc-down", "cpu-high"}
Expr == "last(/h1/x)=1"

\* the reconciliation key the declarations of main() are about
KeyHost == "h1"
KeyName == "svc-down"

NoTrigger == [triggerid |-> 0]

TriggerIds == 1..MaxTriggers

\* Python truthiness of an optional string parameter (`if priority:`)
Truthy(v) == v # None /\ v # ""

\* the tags a declaration may carry; the empty sequence stands for both an
\* unset option (None) and an empty list, which `if tags:` does not tell apart
TagLists == {<<>>, <<[tag |-> "scope", value |-> "availability"]>>}

\* the managed fields of a wire trigger object
ManagedFields == {"description", "expression", "recovery_mode", "priority",
                  "status", "type", "manual_close", "tags"}

\* wire trigger objects the server may hold under triggerid i
WireObjects(i) ==
    { t \in [triggerid : {i}, host : Hosts, description : Names,
             expression : {Expr}, recovery_mode : {"0"}, priority : {"0"},
             status : {"0", "1"}, type : {"0"}, manual_close : {"0"},
             tags : {<<>>}] :
        t.status = "1" => (t.host = KeyHost /\ t.description = KeyName) }

\* ascending sequence of the elements of a set of ids
RECURSIVE SortedSeq(_)
SortedSeq(S) ==
    IF S = {} THEN <<>>
    ELSE LET m == CHOOSE x \in S : \A y \in S : x <= y
         IN <<m>> \o SortedSeq(S \ {m})

Range(s) == { s[i] : i \in 1..Len(s) }

\* sequences of ids without repetition, as a caller may pass to a method
IdSeqs ==
    { s \in UNION { [1..n -> TriggerIds] : n \in 0..MaxTriggers } :
        \A i, j \in 1..Len(s) : i # j => s[i] # s[j] }

-----------------------------------------------------------------------------
(* Completions: how a Python function call ends                            *)

Return(v, zs, calls) ==
    [kind |-> "return", changed |-> FALSE, msg |-> "", value |-> v,
     remote |-> zs, calls |-> calls]

exit_json(changed, msg, zs, calls) ==
    [kind |-> "exit_json", changed |-> changed, msg |-> msg, value |-> <<>>,
     remote |-> zs, calls |-> calls]

fail_json(msg, zs, calls) ==
    [kind |-> "fail_json", changed |-> FALSE, msg |-> msg, value |-> <<>>,
     remote |-> zs, calls |-> calls]

Raise(exc, zs, calls) ==
    [kind |-> "exception", changed |-> FALSE, msg |-> exc, value |-> <<>>,
     remote |-> zs, calls |-> calls]

Call(method, arg) == [method |-> method, arg |-> arg]

-----------------------------------------------------------------------------
(* The Zabbix API behind self._zapi (the remote session)                   *)

Exists(zs, i) == i \in DOMAIN zs /\ zs[i].triggerid # 0

\* the session fails the next remote call of an operation that has issued
\* `calls` so far: a transport or protocol error, raised by self._zapi
SessionFails(calls) == fault = Len(calls) + 1

\* trigger.get({"filter": {"host": host}}): the triggers of one host
api_trigger_get_host(zs, host) ==
    LET ids == SortedSeq({ i \in DOMAIN zs : Exists(zs, i) /\ zs[i].host = host })
    IN [ k \in 1..Len(ids) |-> zs[ids[k]] ]

\* trigger.get({... "filter": {"triggerids": trigger_ids} ...}): full objects
api_trigger_get_ids(zs, trigger_ids) ==
    LET ids == SortedSeq({ i \in Range(trigger_ids) : Exists(zs, i) })
    IN [ k \in 1..Len(ids) |-> zs[ids[k]] ]

\* trigger.delete(ids): removes the triggers; the server rejects an empty
\* list and an id it does not hold, and then deletes nothing
api_trigger_delete(zs, trigger_ids) ==
    IF trigger_ids = <<>> \/ \E i \in Range(trigger_ids) : ~Exists(zs, i)
    THEN [ok |-> FALSE, remote |-> zs]
    ELSE [ok |-> TRUE,
          remote |-> [ i \in DOMAIN zs |->
                         IF i \in Range(trigger_ids) THEN NoTrigger ELSE zs[i] ]]

\* the host a trigger expression refers to: the server links a new trigger
\* to the host named in its expression, "last(/h1/x)=1" -> h1
ExprHost(expression) == KeyHost

\* trigger.create(config): the server assigns the next free triggerid
api_trigger_create(zs, config) ==
    LET free == { i \in DOMAIN zs : ~Exists(zs, i) }
    IN IF free = {}
       THEN [ok |-> FALSE, remote |-> zs]
       ELSE LET id == CHOOSE i \in free : \A j \in free : i <= j
            IN [ok |-> TRUE,
                remote |-> [zs EXCEPT ![id] =
                    [triggerid |-> id, host |-> ExprHost(config.expression),
                     description |-> config.description,
                     expression |-> config.expression,
                     recovery_mode |-> config.recovery_mode,
                     priority |-> config.priority, status |-> config.status,
                     type |-> config.type,
                     manual_close |-> config.manual_close,
                     tags |-> config.tags]]]

\* trigger.update(config): every field of `config` replaces the field of the
\* trigger named by config.triggerid
api_trigger_update(zs, config) ==
    IF ~Exists(zs, config.triggerid)
    THEN [ok |-> FALSE, remote |-> zs]
    ELSE [ok |-> TRUE,
          remote |-> [zs EXCEPT ![config.triggerid] =
              [ f \in DOMAIN zs[config.triggerid] |->
                  IF f \in DOMAIN config THEN config[f]
                  ELSE zs[config.triggerid][f] ]]]

-----------------------------------------------------------------------------
(* module_utils.helpers (zabbix_utils): the Diff Engine                    *)

\* a comparison driven by both objects: the fields of dict1 that differ from
\* dict2, and the fields dict2 alone holds
helper_compare_both_ways(dict1, dict2) ==
    LET D == { f \in DOMAIN dict1 : f \notin DOMAIN dict2 \/ dict1[f] # dict2[f] }
        E == DOMAIN dict2 \ DOMAIN dict1
    IN [ f \in D \cup E |-> IF f \in D THEN dict1[f] ELSE dict2[f] ]

\* helper_cleanup_data(helper_compare_dictionaries(dict1, dict2, {})): the
\* fields of dict1 whose value differs from dict2's, with dict1's values
helper_compare_dictionaries(dict1, dict2) ==
    LET D == { f \in DOMAIN dict1 : f \notin DOMAIN dict2 \/ dict1[f] # dict2[f] }
    IN [ f \in D |-> dict1[f] ]

-----------------------------------------------------------------------------
(* class Trigger(ZabbixBase)                                               *)

\* get_trigger_ids with the session's failure swallowed: a failed lookup is
\* taken for a lookup that found nothing
get_trigger_ids_swallow(host, trigger_name, zs, calls) ==
    LET triggers == api_trigger_get_host(zs, host)
        hit == { k \in 1..Len(triggers) : triggers[k].description = trigger_name }
        ks == SortedSeq(hit)
        log == Append(calls, Call("trigger.get", <<"host", host>>))
    IN IF SessionFails(calls)
       THEN Return(<<>>, zs, log)
       ELSE Return([ n \in 1..Len(ks) |-> triggers[ks[n]].triggerid ], zs, log)

\* get_trigger_ids without its filter on the description: the id of every
\* trigger of the host
get_trigger_ids_any_name(host, trigger_name, zs, calls) ==
    LET triggers == api_trigger_get_host(zs, host)
        log == Append(calls, Call("trigger.get", <<"host", host>>))
    IN IF SessionFails(calls)
       THEN Raise("RemoteCallFailure", zs, log)
       ELSE Return([ n \in 1..Len(triggers) |-> triggers[n].triggerid ], zs, log)

\* Trigger.get_trigger_ids(host, trigger_name)
get_trigger_ids(host, trigger_name, zs, calls) ==
    LET triggers == api_trigger_get_host(zs, host)
        hit == { k \in 1..Len(triggers) : triggers[k].description = trigger_name }
        ks == SortedSeq(hit)
        log == Append(calls, Call("trigger.get", <<"host", host>>))
    IN IF SessionFails(calls)
       THEN Raise("RemoteCallFailure", zs, log)
       ELSE Return([ n \in 1..Len(ks) |-> triggers[ks[n]].triggerid ], zs, log)

\* delete_trigger without its check-mode guard: trigger.delete is issued in
\* a dry-run as well
delete_trigger_unguarded(check_mode, trigger_ids, zs, calls) ==
    LET r == api_trigger_delete(zs, trigger_ids)
        log == Append(calls, Call("trigger.delete", trigger_ids))
    IN IF r.ok /\ ~SessionFails(calls) THEN Return(<<>>, r.remote, log)
       ELSE Raise("RemoteCallFailure", zs, log)

\* a delete_trigger that removes every trigger of the server, whichever
\* ids it was given
delete_trigger_all(check_mode, trigger_ids, zs, calls) ==
    IF check_mode
    THEN exit_json(TRUE, "", zs, calls)
    ELSE LET all == SortedSeq({ i \in DOMAIN zs : Exists(zs, i) })
             r == api_trigger_delete(zs, all)
             log == Append(calls, Call("trigger.delete", all))
         IN IF r.ok /\ ~SessionFails(calls) THEN Return(<<>>, r.remote, log)
            ELSE Raise("RemoteCallFailure", zs, log)

\* Trigger.delete_trigger(trigger_ids)
delete_trigger(check_mode, trigger_ids, zs, calls) ==
    IF check_mode
    THEN exit_json(TRUE, "", zs, calls)
    ELSE LET r == api_trigger_delete(zs, trigger_ids)
             log == Append(calls, Call("trigger.delete", trigger_ids))
         IN IF r.ok /\ ~SessionFails(calls) THEN Return(<<>>, r.remote, log)
            ELSE Raise("RemoteCallFailure", zs, log)

\* Trigger.dump_triggers(trigger_ids)
dump_triggers(trigger_ids, zs, calls) ==
    LET log == Append(calls, Call("trigger.get", <<"triggerids", trigger_ids>>))
    IN IF SessionFails(calls)
       THEN Raise("RemoteCallFailure", zs, log)
       ELSE Return(api_trigger_get_ids(zs, trigger_ids), zs, log)

\* the maps local to generate_trigger_config
priority_map ==
    [not_classified |-> "0", information |-> "1", warning |-> "2",
     average |-> "3", high |-> "4", disaster |-> "5"]
status_map == [enabled |-> "0", disabled |-> "1"]
type_map == [single |-> "0", multiple |-> "1"]
manual_close_map == [no |-> "0", yes |-> "1"]

\* how one block of generate_trigger_config ends: it falls through with the
\* request built so far, calls fail_json, or raises
Step(request) == [kind |-> "return", msg |-> "", value |-> request]
StepFail(msg) == [kind |-> "fail_json", msg |-> msg, value |-> <<>>]
StepRaise(exc) == [kind |-> "exception", msg |-> exc, value |-> <<>>]

\* request["priority"]: a valid value reaches `pv_map[priority]`, and no
\* name pv_map exists (the map is called priority_map)
gtc_priority(request, priority) ==
    IF ~Truthy(priority)
    THEN Step([request EXCEPT !.priority = "0"])
    ELSE IF priority \notin DOMAIN priority_map
         THEN StepFail("Wrong value for 'priority' parameter.")
         ELSE StepRaise("NameError: name 'pv_map' is not defined")

\* request["status"]
gtc_status(request, status) ==
    IF ~Truthy(status)
    THEN Step([request EXCEPT !.status = "0"])
    ELSE IF status \notin DOMAIN status_map
         THEN StepFail("Wrong value for 'status' parameter.")
         ELSE Step([request EXCEPT !.status = status_map[status]])

\* request["type"]: `type` is whatever the name denotes in the function;
\* the code is read through status_map, a local that is bound only when the
\* status block ran
gtc_type(request, type, status) ==
    IF ~Truthy(type)
    THEN Step([request EXCEPT !.type = "0"])
    ELSE IF type \notin DOMAIN type_map
         THEN StepFail("Wrong value for 'type' parameter.")
         ELSE IF ~Truthy(status)
              THEN StepRaise("UnboundLocalError: status_map")
              ELSE IF type \notin DOMAIN status_map
                   THEN StepRaise("KeyError")
                   ELSE Step([request EXCEPT !.type = status_map[type]])

\* request["manual_close"]: the code is read through status_map as well
gtc_manual_close(request, manual_close, status) ==
    IF ~Truthy(manual_close)
    THEN Step([request EXCEPT !.manual_close = "0"])
    ELSE IF manual_close \notin DOMAIN manual_close_map
         THEN StepFail("Wrong value for 'manual_close' parameter.")
         ELSE IF ~Truthy(status)
              THEN StepRaise("UnboundLocalError: status_map")
              ELSE IF manual_close \notin DOMAIN status_map
                   THEN StepRaise("KeyError")
                   ELSE Step([request EXCEPT
                                 !.manual_close = status_map[manual_close]])

\* Trigger.generate_trigger_config(description, expression, priority, status,
\* recovery_mode, manual_close, tags); it has no parameter `type`
generate_trigger_config(description, expression, priority, status, recovery_mode, manual_close, tags) ==
    LET request == [description |-> description, expression |-> expression,
                    recovery_mode |-> "0",
                    tags |-> IF tags # <<>> THEN tags ELSE <<>>,
                    priority |-> "0", status |-> "0", type |-> "0",
                    manual_close |-> "0"]
        s1 == gtc_priority(request, priority)
        s2 == IF s1.kind = "return" THEN gtc_status(s1.value, status) ELSE s1
        s3 == IF s2.kind = "return"
              THEN gtc_type(s2.value, BuiltinType, status) ELSE s2
        s4 == IF s3.kind = "return"
              THEN gtc_manual_close(s3.value, manual_close, status) ELSE s3
    IN s4

\* the completion of a method that ended as generate_trigger_config did
Propagate(step, zs, calls) ==
    [kind |-> step.kind, changed |-> FALSE, msg |-> step.msg,
     value |-> step.value, remote |-> zs, calls |-> calls]

\* Trigger.create_trigger(description, expression, priority, status,
\* recovery_mode, manual_close, tags)
create_trigger(check_mode, description, expression, priority, status, recovery_mode, manual_close, tags, zs, calls) ==
    IF check_mode
    THEN exit_json(TRUE, "", zs, calls)
    ELSE LET gen == generate_trigger_config(description, expression, priority,
                        status, recovery_mode, manual_close, tags)
         IN IF gen.kind # "return"
            THEN Propagate(gen, zs, calls)
            ELSE LET r == api_trigger_create(zs, gen.value)
                     log == Append(calls, Call("trigger.create", gen.value))
                 IN IF r.ok /\ ~SessionFails(calls)
                    THEN Return(<<>>, r.remote, log)
                    ELSE Raise("RemoteCallFailure", zs, log)

\* the names Python can resolve inside update_trigger: its parameters and
\* locals, the module's globals, the builtins the module uses
update_trigger_locals ==
    {"self", "trigger_id", "description", "expression", "priority", "status",
     "recovery_mode", "manual_close", "tags", "generated_config",
     "live_config", "change_parameters", "difference"}
ModuleGlobals ==
    {"DOCUMENTATION", "EXAMPLES", "RETURN", "AnsibleModule", "ZabbixBase",
     "zabbix_utils", "Trigger", "main", "__metaclass__"}
PyBuiltins == {"type", "dict"}
NameDefined(id, locals) == id \in locals \cup ModuleGlobals \cup PyBuiltins

\* Trigger.update_trigger(trigger_id, description, expression, priority,
\* status, recovery_mode, manual_close, tags)
update_trigger(check_mode, trigger_id, description, expression, priority, status, recovery_mode, manual_close, tags, zs, calls) ==
    LET gen == generate_trigger_config(description, expression, priority,
                   status, recovery_mode, manual_close, tags)
    IN IF gen.kind # "return"
       THEN Propagate(gen, zs, calls)
       ELSE
       LET generated_config == gen.value
           dump == dump_triggers(<<trigger_id>>, zs, calls)
       IN IF dump.kind # "return"
          THEN dump
          ELSE IF dump.value = <<>>
          THEN Raise("IndexError", zs, dump.calls)
          ELSE
          LET live_config == dump.value[1]
              difference ==
                  helper_compare_dictionaries(generated_config, live_config)
          IN IF DOMAIN difference = {}
             THEN IF NameDefined("name", update_trigger_locals)
                  THEN exit_json(FALSE, "Trigger up to date", zs, dump.calls)
                  ELSE Raise("NameError: name 'name' is not defined",
                             zs, dump.calls)
             ELSE IF check_mode
                  THEN exit_json(TRUE, "", zs, dump.calls)
                  ELSE
                  LET config == [ f \in DOMAIN generated_config \cup {"triggerid"}
                                    |-> IF f = "triggerid" THEN trigger_id
                                        ELSE generated_config[f] ]
                      r == api_trigger_update(zs, config)
                      log == Append(dump.calls, Call("trigger.update", config))
                  IN IF ~r.ok \/ SessionFails(dump.calls)
                     THEN Raise("RemoteCallFailure", zs, log)
                     ELSE IF NameDefined("name", update_trigger_locals)
                          THEN exit_json(TRUE, "Trigger updated", r.remote, log)
                          ELSE Raise("NameError: name 'name' is not defined",
                                     r.remote, log)

-----------------------------------------------------------------------------
(* main()                                                                  *)

\* the locals main binds from module.params; there is no local `name`: the
\* declared name is bound to `description`
main_locals(p) ==
    [host |-> p.host, description |-> p.name, expression |-> p.expression,
     state |-> p.state, priority |-> p.priority, status |-> p.status,
     type |-> p.type, manual_close |-> p.manual_close,
     recovery_mode |-> p.recovery_mode, tags |-> p.tags]

\* a main() that sends trigger.create for a present-state declaration
\* without asking the lookup whether the trigger exists
main_create_without_lookup(p, check_mode, zs, calls) ==
    LET config == [description |-> p.name, expression |-> p.expression,
                   recovery_mode |-> "0", priority |-> "0", status |-> "0",
                   type |-> "0", manual_close |-> "0", tags |-> p.tags]
        r == api_trigger_create(zs, config)
        log == Append(calls, Call("trigger.create", config))
    IN IF p.state = "present" /\ ~check_mode /\ r.ok
       THEN exit_json(TRUE, "Successfully created trigger", r.remote, log)
       ELSE Raise("NameError: name 'name' is not defined", zs, calls)

\* main() from `trigger = Trigger(module)` on.  The argument `name` of the
\* lookup is evaluated before get_trigger_ids is called.
main(p, check_mode, zs, calls) ==
    LET L == main_locals(p)
    IN IF ~NameDefined("name", DOMAIN L)
       THEN Raise("NameError: name 'name' is not defined", zs, calls)
       ELSE
       LET look == get_trigger_ids(L.host, L["name"], zs, calls)
           trigger_ids == look.value
       IN IF look.kind # "return"
          THEN look
          ELSE IF L.state = "absent"
          THEN IF trigger_ids = <<>>
               THEN exit_json(FALSE, "Trigger not found, no change",
                              look.remote, look.calls)
               ELSE LET d == delete_trigger(check_mode, trigger_ids,
                                            look.remote, look.calls)
                    IN IF d.kind # "return" THEN d
                       ELSE exit_json(TRUE, "Successfully deleted trigger(s)",
                                      d.remote, d.calls)
          ELSE IF trigger_ids = <<>>
               THEN LET c == create_trigger(check_mode, L.description,
                                L.expression, L.priority, L.status,
                                L.recovery_mode, L.manual_close, L.tags,
                                look.remote, look.calls)
                    IN IF c.kind # "return" THEN c
                       ELSE exit_json(TRUE, "Trigger created",
                                      c.remote, c.calls)
               ELSE update_trigger(check_mode, trigger_ids[1], L.description,
                        L.expression, L.priority, L.status, L.recovery_mode,
                        L.manual_close, L.tags, look.remote, look.calls)

-----------------------------------------------------------------------------
(* Inputs                                                                  *)

PriorityInputs ==
    {None, "not_classified", "information", "warning", "average", "high",
     "disaster", "urgent"}
StatusInputs == {None, "enabled", "disabled", "paused"}
TypeInputs == {None, "single", "multiple", "burst"}
ManualCloseInputs == {None, "no", "yes", "maybe"}

Enums(priority, status, type, manual_close) ==
    [priority |-> priority, status |-> status, type |-> type,
     manual_close |-> manual_close]

\* the enum options of the declarations main() is run with: all unset, all
\* set to the documented defaults, all set to other valid values, and each
\* one in turn outside its fixed set
EnumProfiles ==
    { Enums(None, None, None, None),
      Enums("not_classified", "enabled", "single", "no"),
      Enums("warning", "disabled", "multiple", "yes"),
      Enums("urgent", None, None, None),
      Enums(None, "paused", None, None),
      Enums(None, None, "burst", None),
      Enums(None, None, None, "maybe") }

\* module.params of one run of the module
Declarations ==
    { [host |-> h, name |-> n, expression |-> Expr, state |-> st,
       priority |-> e.priority, status |-> e.status, type |-> e.type,
       manual_close |-> e.manual_close, recovery_mode |-> None,
       tags |-> <<>>] :
        h \in Hosts, n \in Names, st \in {"present", "absent"},
        e \in EnumProfiles }

\* arguments of a direct call of generate_trigger_config
BuilderArgs ==
    [description : {KeyName}, expression : {Expr}, priority : PriorityInputs,
     status : StatusInputs, recovery_mode : {None},
     manual_close : ManualCloseInputs, tags : TagLists]

\* arguments of a direct call of create_trigger / update_trigger
ConfigArgs ==
    { [description |-> KeyName, expression |-> Expr, priority |-> e.priority,
       status |-> e.status, recovery_mode |-> None,
       manual_close |-> e.manual_close, tags |-> <<>>] : e \in EnumProfiles }

\* requests as generate_trigger_config builds them, handed to the Diff
\* Engine as generated_config
GeneratedConfigs ==
    [description : {KeyName}, expression : {Expr}, recovery_mode : {"0"},
     priority : {"0", "2"}, status : {"0", "1"}, type : {"0"},
     manual_close : {"0"}, tags : {<<>>}]

-----------------------------------------------------------------------------
(* The state machine                                                       *)

Idle ==
    [op |-> "none", check_mode |-> FALSE, args |-> <<>>, run |-> 0,
     calls |-> <<>>, kind |-> "none", changed |-> FALSE, msg |-> "",
     value |-> <<>>,
     prev |-> [kind |-> "none", changed |-> FALSE, pre |-> <<>>]]

\* the operation has run to its end with completion c: the server holds
\* what its calls left, and cur records the calls and the way it ended
Finish(op, check_mode, a, run, prev, c) ==
    /\ remote' = c.remote
    /\ pre' = remote
    /\ cur' = [op |-> op, check_mode |-> check_mode, args |-> a,
               run |-> run, calls |-> c.calls, kind |-> c.kind,
               changed |-> c.changed, msg |-> c.msg, value |-> c.value,
               prev |-> prev]
    /\ UNCHANGED fault

Init ==
    /\ remote \in { z \in [TriggerIds ->
                        UNION { WireObjects(i) : i \in TriggerIds }
                            \cup {NoTrigger}] :
                      \A i \in TriggerIds : z[i].triggerid \in {0, i} }
    /\ pre = remote
    /\ cur = Idle
    /\ fault = 0

\* Ansible runs the module: main()
RunMain ==
    /\ cur.op = "none"
    /\ \E p \in Declarations, check_mode \in BOOLEAN :
          \E c \in { main(p, check_mode, remote, <<>>) } :
             Finish("main", check_mode, p, 1, Idle.prev, c)

\* Ansible runs the module again with the same declaration, nothing else
\* having touched the server in between
RunMainAgain ==
    /\ cur.op = "main"
    /\ cur.run < MaxRuns
    /\ \E c \in { main(cur.args, cur.check_mode, remote, <<>>) } :
          Finish("main", cur.check_mode, cur.args, cur.run + 1,
                 [kind |-> cur.kind, changed |-> cur.changed, pre |-> pre], c)

CallGetTriggerIds ==
    /\ cur.op = "none"
    /\ \E h \in Hosts, n \in Names :
          \E c \in { get_trigger_ids(h, n, remote, <<>>) } :
             Finish("get_trigger_ids", FALSE,
                    [host |-> h, trigger_name |-> n], 1, Idle.prev, c)

CallDeleteTrigger ==
    /\ cur.op = "none"
    /\ \E ids \in IdSeqs, check_mode \in BOOLEAN :
          \E c \in { delete_trigger(check_mode, ids, remote, <<>>) } :
             Finish("delete_trigger", check_mode, [trigger_ids |-> ids],
                    1, Idle.prev, c)

CallDumpTriggers ==
    /\ cur.op = "none"
    /\ \E ids \in IdSeqs :
          \E c \in { dump_triggers(ids, remote, <<>>) } :
             Finish("dump_triggers", FALSE, [trigger_ids |-> ids],
                    1, Idle.prev, c)

CallGenerateTriggerConfig ==
    /\ cur.op = "none"
    /\ \E a \in BuilderArgs :
          \E g \in { generate_trigger_config(a.description, a.expression,
                         a.priority, a.status, a.recovery_mode,
                         a.manual_close, a.tags) } :
             Finish("generate_trigger_config", FALSE, a, 1, Idle.prev,
                    Propagate(g, remote, <<>>))

CallCreateTrigger ==
    /\ cur.op = "none"
    /\ \E a \in ConfigArgs, check_mode \in BOOLEAN :
          \E c \in { create_trigger(check_mode, a.description, a.expression,
                         a.priority, a.status, a.recovery_mode,
                         a.manual_close, a.tags, remote, <<>>) } :
             Finish("create_trigger", check_mode, a, 1, Idle.prev, c)

CallUpdateTrigger ==
    /\ cur.op = "none"
    /\ \E a \in ConfigArgs, id \in TriggerIds, check_mode \in BOOLEAN :
          \E c \in { update_trigger(check_mode, id, a.description,
                         a.expression, a.priority, a.status, a.recovery_mode,
                         a.manual_close, a.tags, remote, <<>>) } :
             Finish("update_trigger", check_mode,
                    [trigger_id |-> id, description |-> a.description,
                     expression |-> a.expression, priority |-> a.priority,
                     status |-> a.status, recovery_mode |-> a.recovery_mode,
                     manual_close |-> a.manual_close, tags |-> a.tags],
                    1, Idle.prev, c)

\* the process of the finished operation is gone
\* the comparison update_trigger asks of the Diff Engine: a generated
\* config against the full object of a trigger on the server
CallCompareDictionaries ==
    /\ cur.op = "none"
    /\ \E g \in GeneratedConfigs, i \in TriggerIds :
          /\ Exists(remote, i)
          /\ \E c \in { Return(helper_compare_dictionaries(g, remote[i]),
                               remote, <<>>) } :
                Finish("helper_compare_dictionaries", FALSE,
                       [generated_config |-> g, live_config |-> remote[i]],
                       1, Idle.prev, c)

Exit ==
    /\ cur.op # "none"
    /\ cur' = Idle
    /\ pre' = remote
    /\ UNCHANGED <<remote, fault>>

\* the environment: whether, and at which remote call, the session to the
\* server fails during the next operation
SessionFault ==
    /\ cur.op = "none"
    /\ \E k \in 0..MaxFault : k # fault /\ fault' = k
    /\ UNCHANGED <<remote, pre, cur>>

Next ==
    \/ RunMain
    \/ RunMainAgain
    \/ CallGetTriggerIds
    \/ CallDeleteTrigger
    \/ CallDumpTriggers
    \/ CallGenerateTriggerConfig
    \/ CallCreateTrigger
    \/ CallUpdateTrigger
    \/ CallCompareDictionaries
    \/ Exit
    \/ SessionFault

Spec == Init /\ [][Next]_vars

-----------------------------------------------------------------------------
(* Vocabulary of the properties                                            *)

MutatingMethods == {"trigger.create", "trigger.update", "trigger.delete"}

IsMutating(call) == call.method \in MutatingMethods

\* the create/update/delete calls of a call log, in order
MutatingCalls(calls) == SelectSeq(calls, IsMutating)

\* ids of the triggers of `host` named `name`, as a lookup lists them
Matching(zs, host, name) ==
    SortedSeq({ i \in DOMAIN zs :
                  Exists(zs, i) /\ zs[i].host = host
                                /\ zs[i].description = name })

ValidOrUnset(v, map) == ~Truthy(v) \/ v \in DOMAIN map

\* every enum option of the declaration is unset or in its fixed set
ValidDeclaration(p) ==
    /\ ValidOrUnset(p.priority, priority_map)
    /\ ValidOrUnset(p.status, status_map)
    /\ ValidOrUnset(p.type, type_map)
    /\ ValidOrUnset(p.manual_close, manual_close_map)

\* the documented wire code of a human value: "0" when unset
WireCode(map, v) == IF Truthy(v) THEN map[v] ELSE "0"

\* the Desired Config the documentation promises for a declaration
DesiredConfig(p) ==
    [description |-> p.name, expression |-> p.expression,
     recovery_mode |-> "0", tags |-> p.tags,
     priority |-> WireCode(priority_map, p.priority),
     status |-> WireCode(status_map, p.status),
     type |-> WireCode(type_map, p.type),
     manual_close |-> WireCode(manual_close_map, p.manual_close)]

\* the managed fields in which a live trigger differs from a Desired Config
DifferingFields(desired, live) ==
    { f \in DOMAIN desired : desired[f] # live[f] }

\* what a finished operation reports
ReportsChanged(c) == c.kind = "exit_json" /\ c.changed
ReportsNoChange(c) == c.kind = "exit_json" /\ ~c.changed
ReportsFailure(c) == c.kind = "fail_json"

MainRan == cur.op = "main"

-----------------------------------------------------------------------------
(* Properties                                                              *)

\* C1: an operation run in check mode (dry-run) issues no trigger.create,
\* trigger.update or trigger.delete call, whatever the declaration and the
\* server's triggers, and leaves the server's triggers as they were.
C1_DryRunIssuesNoMutatingCall ==
    (cur.op # "none" /\ cur.check_mode) =>
        (MutatingCalls(cur.calls) = <<>> /\ remote = pre)

\* C1 witness: delete_trigger was called in check mode with the ids of the
\* triggers matching the key, and ended by reporting a change.
C1_DryRunDeleteReached ==
    /\ cur.op = "delete_trigger"
    /\ cur.check_mode
    /\ cur.args.trigger_ids # <<>>
    /\ cur.args.trigger_ids = Matching(pre, KeyHost, KeyName)
    /\ ReportsChanged(cur)

\* C2: the second of two runs in a row of one valid present-state
\* declaration, without dry-run, reports "no change" and issues no mutating
\* call; the first reported a change only if no single trigger already
\* satisfied the declaration.
C2_SecondRunReportsNoChange ==
    (/\ MainRan
     /\ cur.run = 2
     /\ cur.args.state = "present"
     /\ ~cur.check_mode
     /\ ValidDeclaration(cur.args)
     /\ Len(Matching(cur.prev.pre, cur.args.host, cur.args.name)) <= 1) =>
        /\ ReportsNoChange(cur)
        /\ MutatingCalls(cur.calls) = <<>>
        /\ cur.prev.kind = "exit_json"
        /\ cur.prev.changed =>
              \A i \in Range(Matching(cur.prev.pre, cur.args.host,
                                      cur.args.name)) :
                 DifferingFields(DesiredConfig(cur.args),
                                 cur.prev.pre[i]) # {}

\* C3: a run whose declaration holds an enum value outside its fixed set
\* ends in a reported failure and has issued no remote call at all.
C3_InvalidEnumFailsBeforeAnyCall ==
    (MainRan /\ ~ValidDeclaration(cur.args)) =>
        (ReportsFailure(cur) /\ cur.calls = <<>>)

\* C4: state present, dry-run off, no matching trigger: exactly one
\* trigger.create carrying the Desired Config, no update or delete, and the
\* run reports changed.
C4_CreatesWhenNotFound ==
    (/\ MainRan
     /\ cur.args.state = "present"
     /\ ~cur.check_mode
     /\ ValidDeclaration(cur.args)
     /\ Matching(pre, cur.args.host, cur.args.name) = <<>>) =>
        /\ ReportsChanged(cur)
        /\ MutatingCalls(cur.calls) =
              << Call("trigger.create", DesiredConfig(cur.args)) >>

\* C5: state present, dry-run off, one matching trigger that differs from
\* the Desired Config in the fields D: exactly one trigger.update carrying
\* the fields of D and the triggerid, and the run reports changed.
C5_UpdatesOnlyDifferingFields ==
    (/\ MainRan
     /\ cur.args.state = "present"
     /\ ~cur.check_mode
     /\ ValidDeclaration(cur.args)
     /\ Len(Matching(pre, cur.args.host, cur.args.name)) = 1
     /\ DifferingFields(DesiredConfig(cur.args),
            pre[Matching(pre, cur.args.host, cur.args.name)[1]]) # {}) =>
        LET id == Matching(pre, cur.args.host, cur.args.name)[1]
            desired == DesiredConfig(cur.args)
            D == DifferingFields(desired, pre[id])
        IN /\ ReportsChanged(cur)
           /\ Len(MutatingCalls(cur.calls)) = 1
           /\ MutatingCalls(cur.calls)[1].method = "trigger.update"
           /\ DOMAIN MutatingCalls(cur.calls)[1].arg = D \cup {"triggerid"}
           /\ MutatingCalls(cur.calls)[1].arg.triggerid = id
           /\ \A f \in D : MutatingCalls(cur.calls)[1].arg[f] = desired[f]

\* C6: state absent, dry-run off, one or more matching triggers: exactly
\* one trigger.delete carrying every id the lookup returned, no create or
\* update, the run reports changed, and no trigger of that name is left.
C6_DeletesAllMatches ==
    (/\ MainRan
     /\ cur.args.state = "absent"
     /\ ~cur.check_mode
     /\ Matching(pre, cur.args.host, cur.args.name) # <<>>) =>
        /\ ReportsChanged(cur)
        /\ MutatingCalls(cur.calls) =
              << Call("trigger.delete",
                      Matching(pre, cur.args.host, cur.args.name)) >>
        /\ Matching(remote, cur.args.host, cur.args.name) = <<>>

\* C7: state absent and no matching trigger: the run reports "no change"
\* and issues no mutating call, with or without dry-run.
C7_AbsentNotFoundIsNoChange ==
    (/\ MainRan
     /\ cur.args.state = "absent"
     /\ Matching(pre, cur.args.host, cur.args.name) = <<>>) =>
        (ReportsNoChange(cur) /\ MutatingCalls(cur.calls) = <<>>)

\* C8: state present and one matching trigger whose managed fields all
\* equal the Desired Config: the run reports "no change" and issues no
\* mutating call, with or without dry-run.
C8_UpToDateIsNoChange ==
    (/\ MainRan
     /\ cur.args.state = "present"
     /\ ValidDeclaration(cur.args)
     /\ Len(Matching(pre, cur.args.host, cur.args.name)) = 1
     /\ DifferingFields(DesiredConfig(cur.args),
            pre[Matching(pre, cur.args.host, cur.args.name)[1]]) = {}) =>
        (ReportsNoChange(cur) /\ MutatingCalls(cur.calls) = <<>>)

\* what the caller of an operation is told: a change, no change, a failure
Report(c) ==
    CASE c.kind = "exit_json" /\ c.changed -> "changed"
      [] c.kind = "exit_json" /\ ~c.changed -> "no change"
      [] c.kind = "return" -> "changed"
      [] OTHER -> "failure"

\* the read-only calls (trigger.get) of a call log
IsReadOnly(call) == ~IsMutating(call)
ReadOnlyCalls(calls) == SelectSeq(calls, IsReadOnly)

\* C9: a dry-run ends with the report (changed / no change / failure) that
\* the same operation without dry-run gives from the same server state, and
\* makes the same read-only calls.  create_trigger returning to main() is
\* the report "created", a change.
C9_DryRunReportsWhatRealRunWould ==
    (cur.op \in {"main", "create_trigger"} /\ cur.check_mode) =>
        LET real == IF cur.op = "main"
                    THEN main(cur.args, FALSE, pre, <<>>)
                    ELSE create_trigger(FALSE, cur.args.description,
                             cur.args.expression, cur.args.priority,
                             cur.args.status, cur.args.recovery_mode,
                             cur.args.manual_close, cur.args.tags,
                             pre, <<>>)
        IN /\ Report(real) = Report(cur)
           /\ ReadOnlyCalls(real.calls) = ReadOnlyCalls(cur.calls)

\* C10: the builder maps every valid human value of every domain to its
\* documented wire code and an unset value to "0".
C10_BuilderEncodesEveryDomain ==
    (/\ cur.op = "generate_trigger_config"
     /\ ValidOrUnset(cur.args.priority, priority_map)
     /\ ValidOrUnset(cur.args.status, status_map)
     /\ ValidOrUnset(cur.args.manual_close, manual_close_map)) =>
        /\ cur.kind = "return"
        /\ cur.value.priority = WireCode(priority_map, cur.args.priority)
        /\ cur.value.status = WireCode(status_map, cur.args.status)
        /\ cur.value.type \in { type_map[v] : v \in DOMAIN type_map }
        /\ cur.value.manual_close =
              WireCode(manual_close_map, cur.args.manual_close)

\* C11: every call of the builder with valid or unset enum inputs returns a
\* Desired Config whose recovery_mode is "0" whatever recovery_mode was
\* passed, whose tags field is present and is the input sequence, and whose
\* priority, status, type and manual_close each hold a wire code of their
\* own domain.
C11_BuilderConfigInvariants ==
    (/\ cur.op = "generate_trigger_config"
     /\ ValidOrUnset(cur.args.priority, priority_map)
     /\ ValidOrUnset(cur.args.status, status_map)
     /\ ValidOrUnset(cur.args.manual_close, manual_close_map)) =>
        /\ cur.kind = "return"
        /\ cur.value.recovery_mode = "0"
        /\ "tags" \in DOMAIN cur.value
        /\ cur.value.tags = cur.args.tags
        /\ cur.value.priority \in { priority_map[v] : v \in DOMAIN priority_map }
        /\ cur.value.status \in { status_map[v] : v \in DOMAIN status_map }
        /\ cur.value.type \in { type_map[v] : v \in DOMAIN type_map }
        /\ cur.value.manual_close \in
              { manual_close_map[v] : v \in DOMAIN manual_close_map }

\* the two kinds of trigger.get call: the lookup by host, the dump by id
IsLookup(call, host) == call = Call("trigger.get", <<"host", host>>)
IsDump(call) == call.method = "trigger.get" /\ call.arg[1] = "triggerids"

\* C12: the remote calls of one run of a valid declaration, with a working
\* session, are the lookup by host first, then a dump only when the state is
\* present and the lookup found a trigger, then at most one of
\* create/update/delete, which is the last call.
C12_CallsFollowLookupDumpMutate ==
    (MainRan /\ ValidDeclaration(cur.args) /\ fault = 0) =>
        /\ cur.calls # <<>>
        /\ IsLookup(cur.calls[1], cur.args.host)
        /\ \A k \in 2..Len(cur.calls) :
              \/ /\ k = 2
                 /\ IsDump(cur.calls[k])
                 /\ cur.args.state = "present"
                 /\ Matching(pre, cur.args.host, cur.args.name) # <<>>
              \/ /\ IsMutating(cur.calls[k])
                 /\ k = Len(cur.calls)
        /\ Len(MutatingCalls(cur.calls)) <= 1

\* C13: state present, a valid declaration, a working session and two or
\* more matching triggers: the run dumps the first id the lookup returned,
\* any update carries that id, the other matching triggers are left as they
\* were, and the run ends in a report, not in a failure.
C13_OnlyFirstMatchReconciled ==
    (/\ MainRan
     /\ cur.args.state = "present"
     /\ ValidDeclaration(cur.args)
     /\ fault = 0
     /\ Len(Matching(pre, cur.args.host, cur.args.name)) >= 2) =>
        LET ids == Matching(pre, cur.args.host, cur.args.name)
        IN /\ cur.kind = "exit_json"
           /\ Len(cur.calls) >= 2
           /\ cur.calls[2] = Call("trigger.get", <<"triggerids", <<ids[1]>> >>)
           /\ \A k \in 3..Len(cur.calls) :
                 /\ cur.calls[k].method = "trigger.update"
                 /\ cur.calls[k].arg.triggerid = ids[1]
           /\ \A n \in 2..Len(ids) : remote[ids[n]] = pre[ids[n]]

\* C14: when the session fails a remote call of an operation, that call is
\* the operation's last one (it is not retried and no call follows it, so a
\* failed lookup or dump is never followed by a create, update or delete),
\* the operation ends in the failure raised by the session, and the server's
\* triggers are as they were.
C14_RemoteFailureEndsTheOperation ==
    (cur.op # "none" /\ fault >= 1 /\ Len(cur.calls) >= fault) =>
        /\ Len(cur.calls) = fault
        /\ cur.kind = "exception"
        /\ cur.msg = "RemoteCallFailure"
        /\ remote = pre

\* C14 witness: the lookup was called while the session failed its first
\* call, with matching triggers on the server, and ended in the failure.
C14_FailedLookupReached ==
    /\ cur.op = "get_trigger_ids"
    /\ fault = 1
    /\ Len(cur.calls) = 1
    /\ Matching(pre, cur.args.host, cur.args.trigger_name) # <<>>
    /\ cur.kind = "exception"

\* C15: a lookup that returns gives exactly the triggerids of the server's
\* triggers on the given host whose description equals the given name: each
\* such id once, no other id, and the empty sequence when there is none.
C15_LookupReturnsExactlyTheMatches ==
    (cur.op = "get_trigger_ids" /\ cur.kind = "return") =>
        LET wanted == { pre[i].triggerid : i \in
                          { j \in DOMAIN pre :
                              /\ pre[j].triggerid # 0
                              /\ pre[j].host = cur.args.host
                              /\ pre[j].description = cur.args.trigger_name } }
        IN /\ Range(cur.value) = wanted
           /\ Len(cur.value) = Cardinality(wanted)
           /\ cur.calls = << Call("trigger.get", <<"host", cur.args.host>>) >>

\* C15 witness: the lookup returned one id while the same host held another
\* trigger under a different name.
C15_LookupFilteredReached ==
    /\ cur.op = "get_trigger_ids"
    /\ cur.kind = "return"
    /\ Len(cur.value) = 1
    /\ \E i \in DOMAIN pre :
          /\ pre[i].triggerid # 0
          /\ pre[i].host = cur.args.host
          /\ pre[i].description # cur.args.trigger_name

\* a live object with its server-managed extras changed or extended: the
\* fields of `desired` keep the values `live` has
ExtrasVariants(desired, live) ==
    { [ f \in DOMAIN live \cup X |->
          IF f \in DOMAIN desired THEN live[f]
          ELSE IF f = "triggerid" THEN i
          ELSE IF f = "host" THEN h
          ELSE "0" ] :
        X \in SUBSET {"templateid", "flags"}, i \in TriggerIds, h \in Hosts }

\* C16: the diff of a Desired Config against a live object is the diff
\* against any object that agrees with it on the Desired Config's fields,
\* whatever triggerid, host or further server-managed fields that object
\* holds; so such fields never decide between "no change" and an update.
C16_DiffIgnoresLiveExtras ==
    cur.op = "helper_compare_dictionaries" =>
        \A other \in ExtrasVariants(cur.args.generated_config,
                                    cur.args.live_config) :
           helper_compare_dictionaries(cur.args.generated_config, other)
               = cur.value

\* C16 witness: a generated config was compared with a live trigger that
\* differs from it in a managed field, and the diff holds that field only.
C16_DiffOfDifferingStatusReached ==
    /\ cur.op = "helper_compare_dictionaries"
    /\ cur.args.generated_config.status # cur.args.live_config.status
    /\ cur.args.generated_config.priority = cur.args.live_config.priority
    /\ DOMAIN cur.value = {"status"}

C18_EveryRunEndsInAReportedOutcome ==
    (MainRan /\ fault = 0) =>
        /\ cur.kind \in {"exit_json", "fail_json"}
        /\ cur.kind = "fail_json" => cur.msg # ""

Max(a, b) == IF a >= b THEN a ELSE b

DeletedIds(calls) ==
    UNION { Range(calls[k].arg) :
              k \in { j \in 1..Len(calls) : calls[j].method = "trigger.delete" } }
UpdatedIds(calls) ==
    { calls[k].arg.triggerid :
        k \in { j \in 1..Len(calls) : calls[j].method = "trigger.update" } }

\* C20: a run of main() for (host, name) leaves every trigger of another
\* host or description as it was, hands trigger.delete and trigger.update
\* only ids of triggers matching (host, name), and leaves the triggerid and
\* description of an updated trigger as they were; delete_trigger removes
\* the triggers whose ids it is given and no other, update_trigger touches
\* no trigger but the one whose id it is given and leaves its triggerid.
C20_OffKeyTriggersUnchanged ==
    /\ MainRan =>
          LET ids == Range(Matching(pre, cur.args.host, cur.args.name))
          IN /\ \A i \in DOMAIN pre \ ids : remote[i] = pre[i]
             /\ DeletedIds(cur.calls) \subseteq ids
             /\ UpdatedIds(cur.calls) \subseteq ids
             /\ \A i \in UpdatedIds(cur.calls) :
                   /\ remote[i].triggerid = pre[i].triggerid
                   /\ remote[i].description = pre[i].description
    /\ cur.op = "delete_trigger" =>
          /\ DeletedIds(cur.calls) \subseteq Range(cur.args.trigger_ids)
          /\ \A i \in DOMAIN pre \ Range(cur.args.trigger_ids) :
                remote[i] = pre[i]
    /\ cur.op = "update_trigger" =>
          /\ UpdatedIds(cur.calls) \subseteq {cur.args.trigger_id}
          /\ \A i \in DOMAIN pre :
                /\ remote[i].triggerid = pre[i].triggerid
                /\ i # cur.args.trigger_id => remote[i] = pre[i]

\* C20 witness: delete_trigger was given the ids of the triggers matching
\* the key, removed them, and a trigger of another name is still there.
C20_DeleteLeftOtherTriggerReached ==
    /\ cur.op = "delete_trigger"
    /\ ~cur.check_mode
    /\ cur.kind = "return"
    /\ cur.args.trigger_ids = Matching(pre, KeyHost, KeyName)
    /\ Matching(remote, KeyHost, KeyName) = <<>>
    /\ \E i \in DOMAIN pre : Exists(pre, i) /\ remote[i] = pre[i]

====
